---- MODULE Spec2Model ----
(***************************************************************************)
(* Model of inspire.py: the bibliography update (sync) run, the selection  *)
(* flow that appends entries, key extraction from the bibliography text,   *)
(* and download_pdf.  Files are sequences of one-character strings.        *)
(***************************************************************************)
EXTENDS Integers, Sequences, FiniteSets, TLC

(* ------------------------------ bounds -------------------------------- *)
\* invocations of the script in one behaviour
MaxRuns == 2
\* entries in the bibliography file at the start
MaxInit == 2
\* hits the remote may return for one query
MaxHits == 2
\* records the user may select in one invocation
MaxSel == 1

(* ------------------------- character classes -------------------------- *)
\* the letters, digits and blanks the modelled texts are written with
Letter == {"a", "t", "u", "x", "y", "A", "B", "C"}
Digit == {"0", "1", "2", "3", "4", "5", "6", "7", "8", "9"}
\* \s
WS == {" ", "\n"}
\* \w
Word == Letter \cup Digit \cup {"_"}
\* [a-zA-Z0-9_\-\.:]
KeyChar == Letter \cup Digit \cup {"_", "-", ".", ":"}
Brace == {"{", "}"}

DigitChar == <<"0", "1", "2", "3", "4", "5", "6", "7", "8", "9">>

\* ss has no repeated element
Distinct(ss) == \A p, q \in 1..Len(ss) : ss[p] = ss[q] => p = q

Range(ss) == {ss[p] : p \in 1..Len(ss)}

Max(a, b) == IF a > b THEN a ELSE b

(* --------------------- bib_get_texkeys (the regex) --------------------- *)
\* first position j >= i of t that holds no character of S (Len(t)+1 if
\* none): where a greedy  S*  started at i stops
SkipWhile(t, i, S) ==
    CHOOSE j \in i..(Len(t) + 1) :
        /\ \A k \in i..(j - 1) : t[k] \in S
        /\ (j = Len(t) + 1 \/ t[j] \notin S)

At(t, i, c) == i <= Len(t) /\ t[i] = c

\* a body that admits no braces at all
BodyFlat(t, i) == SkipWhile(t, i, {c \in Range(t) : c \notin Brace})

\* where the greedy  (?:[^\{\}]|\{[^\{\}]*\})*  started at i stops
RECURSIVE Body(_, _)
Body(t, i) ==
    IF i > Len(t) THEN i
    ELSE IF t[i] \notin Brace THEN Body(t, i + 1)
    ELSE IF t[i] = "{" THEN
        LET j == SkipWhile(t, i + 1, {c \in Range(t) : c \notin Brace})
        IN  IF At(t, j, "}") THEN Body(t, j + 1) ELSE i
    ELSE i

\* one match attempt of re_keys at position i: [ok, key, end]
\*   \s*@\w+\{\s*(key)\s*,body\}\s*
MatchAt(t, i) ==
    LET a == SkipWhile(t, i, WS)
        b == SkipWhile(t, a + 1, Word)
        c == SkipWhile(t, b + 1, WS)
        d == SkipWhile(t, c, KeyChar)
        e == SkipWhile(t, d, WS)
        f == Body(t, e + 1)
        no == [ok |-> FALSE, key |-> <<>>, end |-> i]
    IN  IF ~At(t, a, "@") THEN no
        ELSE IF ~(b > a + 1 /\ At(t, b, "{")) THEN no
        ELSE IF ~(d > c) THEN no
        ELSE IF ~At(t, e, ",") THEN no
        ELSE IF ~At(t, f, "}") THEN no
        ELSE [ok |-> TRUE, key |-> SubSeq(t, c, d - 1),
              end |-> SkipWhile(t, f + 1, WS)]

\* a search that gives up at the first position where re_keys does not match
RECURSIVE FindAllStop(_, _)
FindAllStop(t, i) ==
    IF i > Len(t) THEN <<>>
    ELSE LET m == MatchAt(t, i)
         IN  IF m.ok THEN <<m.key>> \o FindAllStop(t, m.end) ELSE <<>>

\* re_keys.findall(text): the keys of the non-overlapping matches, left to right
RECURSIVE FindAll(_, _)
FindAll(t, i) ==
    IF i > Len(t) THEN <<>>
    ELSE LET m == MatchAt(t, i)
         IN  IF m.ok THEN <<m.key>> \o FindAll(t, m.end)
             ELSE FindAll(t, i + 1)

bib_get_texkeys(text) == FindAll(text, 1)

(* ------------------------------ records -------------------------------- *)
KA == <<"A">>
KB == <<"B">>
Keys == {KA, KB}

\* raw BibTeX served by the remote for a record (links.bibtex)
EntryAx == <<"@", "a", "{", "A", ",", "t", "{", "x", "}", "}">>
EntryBx == <<"@", "a", "{", "B", ",", "t", "{", "x", "}", "}">>

\* arxiv_eprints values
IdModern == <<"2", "1", "0", "7", ".", "1", "2", "3", "4", "5">>
IdLegacy == <<"9", "9", "1", "2", "0", "0", "1">>
IdOdd == <<"1", "2", "3", ".", "4", "5", "6">>
CatHepPh == <<"h", "e", "p", "-", "p", "h">>

\* a record as the code reads it: metadata.texkeys (when present),
\* metadata.arxiv_eprints (when present), links.bibtex
MkRecord(hasTexkeys, texkeys, hasEprints, eprints, bibtex) ==
    [hasTexkeys |-> hasTexkeys, texkeys |-> texkeys,
     hasEprints |-> hasEprints, arxiv_eprints |-> eprints, bibtex |-> bibtex]

Eprint(value, categories) == [value |-> value, categories |-> categories]

\* the remote corpus: record 1 has the alternative key B, which is also the
\* key of record 2; record 3 carries no texkeys
RecordIds == 1..3
Record(r) ==
    CASE r = 1 -> MkRecord(TRUE, <<KA, KB>>, TRUE,
                           <<Eprint(IdModern, <<>>)>>, EntryAx)
      [] r = 2 -> MkRecord(TRUE, <<KB>>, FALSE, <<>>, EntryBx)
      [] OTHER -> MkRecord(FALSE, <<>>, TRUE,
                           <<Eprint(IdLegacy, <<CatHepPh>>)>>, <<>>)

\* sequences of distinct record ids of length <= n
RECURSIVE RecSeqs(_)
RecSeqs(n) ==
    IF n = 0 THEN {<<>>}
    ELSE RecSeqs(n - 1) \cup
         {Append(s, r) : s \in {q \in RecSeqs(n - 1) : Len(q) = n - 1},
                         r \in RecordIds}

DistinctRecSeqs(n) == {s \in RecSeqs(n) : Distinct(s)}

\* 'texkeys' in rec['metadata']
HasTexkeys(r) == Record(r).hasTexkeys

\* the two filters of the sync loop for one texkey
MatchingRecords(rs, texkey) ==
    LET Has(r) == texkey \in Range(Record(r).texkeys)
    IN  SelectSeq(SelectSeq(rs, HasTexkeys), Has)

(* ------------------------------ download_pdf ---------------------------- *)
\* content of a PDF file: absent, what was there before, a complete
\* transfer, a transfer cut short
PdfContent == {"none", "old", "new", "partial"}
\* what urlretrieve meets: the transfer completes, fails before the file is
\* opened (HTTP error), fails after writing part of it
NetOutcome == {"ok", "refused", "short"}

\* re.fullmatch(r'\d+\.\d+', v)
FullMatchDigitsDotDigits(v) ==
    LET a == SkipWhile(v, 1, Digit)
        b == SkipWhile(v, a + 1, Digit)
    IN  a > 1 /\ At(v, a, ".") /\ b > a + 1 /\ b = Len(v) + 1

\* a guard that forgets exist_ok
ExistsGuardNoFlag(dest, exist_ok) == dest # "none"

\* os.path.exists(dest_file) and not exist_ok
ExistsGuard(dest, exist_ok) == dest # "none" /\ ~exist_ok

\* download_pdf(record, dest_file, exist_ok) when the destination holds
\* dest and the network would answer net:
\*   raised: the exception (or "none"), arxiv_id: the identifier put in the
\*   URL, transfer: urlretrieve was called, dest: the destination afterwards
download_pdf(record, dest, exist_ok, net) ==
    LET no(e) == [raised |-> e, arxiv_id |-> <<>>, transfer |-> FALSE,
                  dest |-> dest]
    IN  IF ExistsGuard(dest, exist_ok) THEN no("FileExistsError")
        ELSE IF ~record.hasEprints THEN no("ValueError")
        ELSE IF record.arxiv_eprints = <<>> THEN no("IndexError")
        ELSE LET ep == record.arxiv_eprints[1]
                 old == ~FullMatchDigitsDotDigits(ep.value)
             IN  IF old /\ ep.categories = <<>> THEN no("IndexError")
                 ELSE LET id == IF old
                                THEN ep.categories[1] \o <<"/">> \o ep.value
                                ELSE ep.value
                      IN  [raised |-> IF net = "ok" THEN "none" ELSE "URLError",
                           arxiv_id |-> id, transfer |-> TRUE,
                           dest |-> CASE net = "ok" -> "new"
                                      [] net = "refused" -> dest
                                      [] OTHER -> "partial"]

(* ------------------------------- files --------------------------------- *)
NoFile == [exists |-> FALSE, text |-> <<>>]
File(text) == [exists |-> TRUE, text |-> text]

\* "# created by inspire.py on <now> \n", written when the configuration
\* is set up
CreatedHeader == <<"#", " ", "c", " ", "0", " ", "\n">>
\* "# updated by inspire.py on <now> \n" with the clock reading n
UpdatedHeader(n) == <<"#", " ", "u", " ", DigitChar[n + 1], " ", "\n">>
\* position of the clock reading in the header line
StampPos == 5

\* a file opened without truncation
TruncatedNot(text) == text

\* what open(path, 'w') leaves of a file's text
Truncated(text) == <<>>

\* a removal that does not happen
RemovedNot(f) == f

\* what os.remove(path) leaves of a file
Removed(f) == NoFile

\* an append that writes the entry alone
bib_append_bare(text, bibtex) == text \o bibtex

\* bib_append_entry: the text after  bib.write('\n' + bibtex)
bib_append_entry(text, bibtex) == text \o <<"\n">> \o bibtex

\* entries as they stand in the file before any update (older field values)
OldEntry(k) == <<"@", "a", "{">> \o k \o <<",", "t", "{", "y", "}", "}">>

RECURSIVE AppendAll(_, _)
AppendAll(text, entries) ==
    IF entries = <<>> THEN text
    ELSE AppendAll(bib_append_entry(text, Head(entries)), Tail(entries))

\* sequences of distinct keys of length <= n
RECURSIVE KeySeqs(_)
KeySeqs(n) ==
    IF n = 0 THEN {<<>>}
    ELSE KeySeqs(n - 1) \cup
         {Append(s, k) : s \in {q \in KeySeqs(n - 1) : Len(q) = n - 1},
                         k \in Keys}

\* the bibliography files a run may find: created by the configuration
\* set-up, then entries with pairwise distinct keys appended
InitTexts ==
    {AppendAll(CreatedHeader, [p \in 1..Len(ks) |-> OldEntry(ks[p])]) :
        ks \in {q \in KeySeqs(MaxInit) : Distinct(q)}}

(* ------------------------------- state ---------------------------------- *)
VARIABLES
    live,         \* args.bib on disk
    bak,          \* args.bib + '.bak' on disk
    pdfs,         \* pdf_dir: the content of <texkey>.pdf for each key
    now,          \* clock readings handed out by datetime.now()
    pc,           \* position of the running script, "idle" between runs
    args,         \* parsed command line and the configured download_pdf
    bib_texkeys,  \* the script's bib_texkeys
    i,            \* index of the current key / record of the running loop
    records,      \* the script's records (ids into the corpus)
    outcome,      \* how the last run ended
    runs,         \* runs started so far
    h,            \* history of the runs, read only by the properties
    call,         \* one isolated call of download_pdf and its result
    ext           \* one isolated key extraction and its result

vars == <<live, bak, pdfs, now, pc, args, bib_texkeys, i, records, outcome,
          runs, h, call, ext>>

NoArgs == [update |-> FALSE, bib |-> FALSE, display |-> FALSE, pdf |-> FALSE,
           cfgpdf |-> FALSE]
\* the options read by both flows; args.display and the configured
\* download_pdf are read by the selection flow only and drawn there
ArgSets == [update : BOOLEAN, bib : BOOLEAN, display : {FALSE},
            pdf : BOOLEAN, cfgpdf : {FALSE}]

NoRecov == [had |-> FALSE, nb |-> 0, nl |-> 0, answer |-> "none",
            restored |-> FALSE]
NoSnap == [ok |-> FALSE, text |-> <<>>, resolved |-> <<>>]
NoPair == [ok |-> FALSE, t1 |-> <<>>, r1 |-> <<>>, t2 |-> <<>>, r2 |-> <<>>]
NoWatch == [on |-> FALSE, keys |-> {}, clean |-> FALSE]
NoCall == [record |-> Record(3), dest |-> "none", exist_ok |-> FALSE,
           net |-> "ok", done |-> FALSE,
           result |-> download_pdf(Record(3), "none", FALSE, "ok")]

\* no key extraction under way
NoExt == [t1 |-> <<>>, keys1 |-> <<>>, kind |-> "none", frag |-> <<>>,
          t2 |-> <<>>, keys2 |-> <<>>, done |-> FALSE,
          k1 |-> <<>>, k2 |-> <<>>, kall |-> <<>>, again |-> <<>>]

InitHistory ==
    [startText |-> <<>>,     \* live text when the run started
     captured |-> <<>>,      \* the keys this run read at line 263
     recov |-> NoRecov,      \* what the restore step of this run met
     phase |-> "none",       \* "rewrite" from the backup copy of this run,
                             \* "synced" from the backup's removal
     canon |-> TRUE,         \* every entry this run appended reads back
                             \* under the key asked for
     preText |-> <<>>,       \* live text when the backup copy was made
     hdr |-> 0,              \* clock reading in the header this run wrote
     resolved |-> <<>>,      \* records whose entries this run's sync appended
     watch |-> NoWatch,      \* keys of the file before an interrupted run
     prev |-> NoSnap,        \* the preceding run, if a completed plain sync
     pair |-> NoPair,        \* two completed plain syncs in succession
     allDone |-> TRUE,       \* every run so far ran to its end
     upd |-> FALSE,          \* the run was started with --update
     warn |-> "none"]        \* what the last download_pdf of this run's sync
                             \* raised

Init ==
    /\ \/ /\ live \in {File(t) : t \in InitTexts}
          /\ bak = NoFile
       \/ /\ live = NoFile
          /\ bak \in {NoFile, File(bib_append_entry(CreatedHeader, OldEntry(KA)))}
    /\ pdfs = [k \in Keys |-> IF k = KA THEN "old" ELSE "none"]
    /\ now = 0
    /\ pc = "idle"
    /\ args = NoArgs
    /\ bib_texkeys = <<>>
    /\ i = 0
    /\ records = <<>>
    /\ outcome = "none"
    /\ runs = 0
    /\ h = InitHistory
    /\ call = NoCall
    /\ ext = NoExt

(* --------------------------- ends of a run ------------------------------ *)
\* between the backup copy (line 275) and the backup's removal (line 314)
InWindow == pc \in {"u_trunc", "u_header", "u_query", "u_check", "u_append",
                    "u_pdf", "u_remove"}

\* the history after the run ends with outcome o, the live text being text
\* and the records of the selection flow sel
HExit(hh, o, text, sel) ==
    LET plain == o = "done" /\ args.update /\ sel = <<>>
    IN  [hh EXCEPT
          !.allDone = @ /\ o = "done",
          !.warn = "none",
          !.prev = IF plain
                   THEN [ok |-> TRUE, text |-> text, resolved |-> hh.resolved]
                   ELSE NoSnap,
          !.pair = IF plain /\ hh.prev.ok
                   THEN [ok |-> TRUE, t1 |-> hh.prev.text,
                         r1 |-> hh.prev.resolved, t2 |-> text,
                         r2 |-> hh.resolved]
                   ELSE @,
          !.watch = IF @.on
                    THEN [@ EXCEPT !.clean = @ /\ o = "done"]
                    ELSE IF o = "killed" /\ InWindow /\ ~hh.recov.had
                    THEN [on |-> TRUE, keys |-> Range(bib_texkeys),
                          clean |-> hh.canon]
                    ELSE @]

\* the process ends: an exception reaches the top level, the script is done,
\* or it is killed; its variables are gone
Exit(hh, o, text, sel) ==
    /\ pc' = "idle"
    /\ outcome' = o
    /\ args' = NoArgs
    /\ bib_texkeys' = <<>>
    /\ i' = 0
    /\ records' = <<>>
    /\ h' = HExit(hh, o, text, sel)

(* ------------------------------ update run ------------------------------ *)
\* the script is started (lines 255-261)
StartRun ==
    /\ pc = "idle"
    /\ runs < MaxRuns
    /\ runs' = runs + 1
    /\ \E a \in ArgSets :
        LET hh == [h EXCEPT !.startText = live.text, !.captured = <<>>,
                            !.recov = NoRecov, !.phase = "none",
                            !.canon = TRUE, !.preText = <<>>,
                            !.hdr = 0, !.resolved = <<>>,
                            !.upd = a.update, !.warn = "none"]
        IN  IF a.update /\ ~a.bib
            THEN Exit(hh, "RuntimeError", live.text, <<>>)
            ELSE /\ args' = a
                 /\ pc' = IF a.update THEN "u_keys" ELSE "s_query"
                 /\ outcome' = "running"
                 /\ h' = hh
                 /\ UNCHANGED <<bib_texkeys, i, records>>
    /\ UNCHANGED <<live, bak, pdfs, now, call, ext>>

\* an open that succeeds whether or not the file is there
OpenFailsNever(f) == FALSE

\* open(bib_file, 'r') raises FileNotFoundError  (line 184)
OpenFails(f) == ~f.exists

\* bib_texkeys = bib_get_texkeys(args.bib)  (line 263)
UKeys ==
    /\ pc = "u_keys"
    /\ IF OpenFails(live)
       THEN Exit(h, "IOError", live.text, <<>>)
       ELSE /\ bib_texkeys' = bib_get_texkeys(live.text)
            /\ pc' = "u_restore"
            /\ h' = [h EXCEPT !.captured = bib_texkeys']
            /\ UNCHANGED <<outcome, args, i, records>>
    /\ UNCHANGED <<live, bak, pdfs, now, runs, call, ext>>

\* what the user answers to a confirm() prompt: Enter takes the default
Answers == {"enter", "yes", "no"}
confirm(default_is_yes, answer) ==
    IF answer = "enter" THEN default_is_yes ELSE answer = "yes"

\* a default that also restores on equal counts
RestoreByDefaultOrTie(bak_texkeys, texkeys) == Len(bak_texkeys) >= Len(texkeys)

\* default_is_yes of the restore prompt (line 270)
RestoreByDefault(bak_texkeys, texkeys) == Len(bak_texkeys) > Len(texkeys)

\* restore backup?  (lines 266-273)
URestore ==
    /\ pc = "u_restore"
    /\ pc' = "u_copy"
    /\ IF bak.exists
       THEN \E answer \in Answers :
              LET bak_texkeys == bib_get_texkeys(bak.text)
                  yes == confirm(RestoreByDefault(bak_texkeys, bib_texkeys),
                                 answer)
              IN  /\ live' = IF yes THEN bak ELSE live
                  /\ bak' = Removed(bak)
                  /\ h' = [h EXCEPT
                             !.recov = [had |-> TRUE, nb |-> Len(bak_texkeys),
                                        nl |-> Len(bib_texkeys),
                                        answer |-> answer,
                                        restored |-> yes],
                             !.watch = [@ EXCEPT
                                          !.clean = @ /\ answer = "enter"]]
       ELSE UNCHANGED <<live, bak, h>>
    /\ UNCHANGED <<pdfs, now, args, bib_texkeys, i, records, outcome, runs,
                   call, ext>>

\* shutil.copyfile(args.bib, bib_bak) opens the backup for writing ...
UCopyOpen ==
    /\ pc = "u_copy"
    /\ pc' = "u_copy2"
    /\ bak' = File(<<>>)
    /\ UNCHANGED <<live, pdfs, now, args, bib_texkeys, i, records, outcome,
                   runs, h, call, ext>>

\* ... and copies the live file into it  (line 275)
UCopy ==
    /\ pc = "u_copy2"
    /\ pc' = "u_trunc"
    /\ bak' = File(live.text)
    /\ h' = [h EXCEPT !.phase = "rewrite", !.preText = live.text]
    /\ UNCHANGED <<live, pdfs, now, args, bib_texkeys, i, records, outcome,
                   runs, call, ext>>

\* open(args.bib, 'w') empties the live file  (line 276)
UTruncate ==
    /\ pc = "u_trunc"
    /\ pc' = "u_header"
    /\ live' = File(Truncated(live.text))
    /\ UNCHANGED <<bak, pdfs, now, args, bib_texkeys, i, records, outcome,
                   runs, h, call, ext>>

\* a loop that stops one key early
AfterKeyEarly(n) == IF n + 1 >= Len(bib_texkeys) THEN "u_remove" ELSE "u_query"

\* position after the loop body has run for key number n
AfterKey(n) == IF n >= Len(bib_texkeys) THEN "u_remove" ELSE "u_query"

\* the header line is written with datetime.now()  (lines 277-290)
UHeader ==
    /\ pc = "u_header"
    /\ now' = now + 1
    /\ live' = File(live.text \o UpdatedHeader(now'))
    /\ i' = 1
    /\ pc' = AfterKey(0)
    /\ h' = [h EXCEPT !.hdr = now']
    /\ UNCHANGED <<bak, pdfs, args, bib_texkeys, records, outcome, runs, call,
                   ext>>

\* get_records(texkey, size=1) and the two filters (lines 292-296); the
\* remote answers with any hits, or not at all
UQuery ==
    /\ pc = "u_query"
    /\ \/ Exit(h, "URLError", live.text, <<>>)
       \/ \E hits \in DistinctRecSeqs(MaxHits) :
            /\ records' = MatchingRecords(hits, bib_texkeys[i])
            /\ pc' = "u_check"
            /\ UNCHANGED <<outcome, h, args, bib_texkeys, i>>
    /\ UNCHANGED <<live, bak, pdfs, now, runs, call, ext>>

\* a test that lets several matching records through
AmbiguousOnlyNone(recs) == Len(recs) = 0

\* len(records) != 1  (line 297)
Ambiguous(recs) == Len(recs) # 1

\* if len(records) != 1: raise ValueError  (lines 297-299)
UCheck ==
    /\ pc = "u_check"
    /\ IF Ambiguous(records)
       THEN Exit(h, "ValueError", live.text, <<>>)
       ELSE /\ pc' = "u_append"
            /\ UNCHANGED <<outcome, h, args, bib_texkeys, i, records>>
    /\ UNCHANGED <<live, bak, pdfs, now, runs, call, ext>>

\* the entry the remote serves is one key extraction reads back under the
\* key that was asked for
ReadsBackAs(r, texkey) == bib_get_texkeys(Record(r).bibtex) = <<texkey>>

\* retrieve_link and bib_append_entry  (lines 302-304)
UAppend ==
    /\ pc = "u_append"
    /\ \/ /\ Exit(h, "URLError", live.text, <<>>)
          /\ UNCHANGED live
       \/ /\ live' = File(bib_append_entry(live.text, Record(records[1]).bibtex))
          /\ pc' = IF args.pdf THEN "u_pdf" ELSE AfterKey(i)
          /\ i' = IF pc' = "u_query" THEN i + 1 ELSE i
          /\ h' = [h EXCEPT
                     !.resolved = Append(@, records[1]),
                     !.canon = @ /\ ReadsBackAs(records[1], bib_texkeys[i]),
                     !.watch = [@ EXCEPT !.clean =
                                  @ /\ ReadsBackAs(records[1], bib_texkeys[i])]]
          /\ UNCHANGED <<outcome, args, bib_texkeys, records>>
    /\ UNCHANGED <<bak, pdfs, now, runs, call, ext>>

\* an except clause that catches nothing
CaughtByNothing(e) == FALSE

\* except Exception: the exceptions download_pdf raises are all caught
\* (line 310)
CaughtByException(e) ==
    e \in {"FileExistsError", "ValueError", "IndexError", "URLError"}

\* download_pdf(records[0], pdf_file, exist_ok=True), any exception
\* swallowed  (lines 305-312)
UPdf ==
    /\ pc = "u_pdf"
    /\ \E net \in NetOutcome :
         LET texkey == bib_texkeys[i]
             r == download_pdf(Record(records[1]), pdfs[texkey], TRUE, net)
             hh == [h EXCEPT !.warn = r.raised]
         IN  /\ pdfs' = [pdfs EXCEPT ![texkey] = r.dest]
             /\ IF r.raised = "none" \/ CaughtByException(r.raised)
                THEN /\ pc' = AfterKey(i)
                     /\ i' = IF pc' = "u_query" THEN i + 1 ELSE i
                     /\ h' = hh
                     /\ UNCHANGED <<args, bib_texkeys, records, outcome>>
                ELSE Exit(hh, r.raised, live.text, <<>>)
    /\ UNCHANGED <<live, bak, now, runs, call, ext>>

\* os.remove(bib_bak)  (line 314)
URemove ==
    /\ pc = "u_remove"
    /\ pc' = "s_query"
    /\ bak' = Removed(bak)
    /\ h' = [h EXCEPT !.phase = "synced"]
    /\ UNCHANGED <<live, pdfs, now, args, bib_texkeys, i, records, outcome,
                   runs, call, ext>>

(* ----------------------------- selection flow ---------------------------- *)
\* get_records for the query, the filters and make_selection (lines 318-344):
\* the records the loop below will run over, or no answer from the remote
SQuery ==
    /\ pc = "s_query"
    /\ \/ Exit(h, "URLError", live.text, <<>>)
       \/ \E sel \in DistinctRecSeqs(MaxSel) :
            /\ records' = SelectSeq(sel, HasTexkeys)
            /\ pc' = "s_keys"
            /\ UNCHANGED <<outcome, h, args, bib_texkeys, i>>
    /\ UNCHANGED <<live, bak, pdfs, now, runs, call, ext>>

\* dl_pdf of the selection flow (lines 346-349)
SelDlPdf == IF args.pdf THEN TRUE ELSE args.cfgpdf

\* all texkeys in the database (lines 351-355), then the loop starts
SKeys ==
    /\ pc = "s_keys"
    /\ IF args.bib /\ OpenFails(live)
       THEN Exit(h, "IOError", live.text, records)
       ELSE IF records = <<>>
       THEN Exit(h, "done", live.text, records)
       ELSE \E display \in BOOLEAN, cfgpdf \in BOOLEAN :
              /\ args' = [args EXCEPT !.display = display, !.cfgpdf = cfgpdf]
              /\ bib_texkeys' = IF args.bib THEN bib_get_texkeys(live.text)
                                ELSE <<>>
              /\ i' = 1
              /\ pc' = "s_entry"
              /\ UNCHANGED <<outcome, h, records>>
    /\ UNCHANGED <<live, bak, pdfs, now, runs, call, ext>>

\* the loop goes on with the next record, or the script ends
SNext(text) ==
    IF i >= Len(records)
    THEN Exit(h, "done", text, records)
    ELSE /\ pc' = "s_entry"
         /\ i' = i + 1
         /\ UNCHANGED <<outcome, h, args, bib_texkeys, records>>

\* one record of the loop: display it, or fetch its BibTeX and append it
\* unless its first texkey is in bib_texkeys  (lines 358-391)
SEntry ==
    /\ pc = "s_entry"
    /\ LET rec == Record(records[i])
           texkey == rec.texkeys[1]
       IN  \/ /\ Exit(h, "URLError", live.text, records)
              /\ UNCHANGED live
           \/ /\ live' = IF ~args.bib \/ args.display THEN live
                         ELSE IF texkey \in Range(bib_texkeys) THEN live
                         ELSE File(bib_append_entry(live.text, rec.bibtex))
              /\ IF (~args.bib \/ args.display) \/ ~SelDlPdf
                 THEN SNext(live'.text)
                 ELSE /\ pc' = "s_pdf"
                      /\ UNCHANGED <<outcome, h, args, bib_texkeys, i, records>>
    /\ UNCHANGED <<bak, pdfs, now, runs, call, ext>>

\* a default that overwrites
ExistOkDefaultTrue == TRUE

\* exist_ok: bool = False  (line 196)
ExistOkDefault == FALSE

\* download_pdf(rec, pdf_file) and its two except clauses (lines 392-405)
SPdf ==
    /\ pc = "s_pdf"
    /\ \E net \in NetOutcome :
         LET rec == Record(records[i])
             texkey == rec.texkeys[1]
             r == download_pdf(rec, pdfs[texkey], ExistOkDefault, net)
         IN  /\ pdfs' = [pdfs EXCEPT ![texkey] = r.dest]
             /\ IF r.raised = "FileExistsError"
                THEN /\ pc' = "s_confirm"
                     /\ UNCHANGED <<outcome, h, args, bib_texkeys, i, records>>
                ELSE SNext(live.text)
    /\ UNCHANGED <<live, bak, now, runs, call, ext>>

\* confirm('re-download?')  (line 400)
SConfirm ==
    /\ pc = "s_confirm"
    /\ \E answer \in Answers :
         IF confirm(FALSE, answer)
         THEN /\ pc' = "s_redl"
              /\ UNCHANGED <<outcome, h, args, bib_texkeys, i, records>>
         ELSE SNext(live.text)
    /\ UNCHANGED <<live, bak, pdfs, now, runs, call, ext>>

\* download_pdf(rec, pdf_file, exist_ok=True), whose exceptions nothing
\* catches  (line 402)
SRedownload ==
    /\ pc = "s_redl"
    /\ \E net \in NetOutcome :
         LET rec == Record(records[i])
             texkey == rec.texkeys[1]
             r == download_pdf(rec, pdfs[texkey], TRUE, net)
         IN  /\ pdfs' = [pdfs EXCEPT ![texkey] = r.dest]
             /\ IF r.raised # "none"
                THEN Exit(h, r.raised, live.text, records)
                ELSE SNext(live.text)
    /\ UNCHANGED <<live, bak, now, runs, call, ext>>

\* the process is killed (user interrupt)
Interrupt ==
    /\ pc # "idle"
    /\ Exit(h, "killed", live.text, <<>>)
    /\ UNCHANGED <<live, bak, pdfs, now, runs, call, ext>>

Next ==
    \/ StartRun \/ UKeys \/ URestore \/ UCopyOpen \/ UCopy \/ UTruncate
    \/ UHeader \/ UQuery \/ UCheck \/ UAppend \/ UPdf \/ URemove
    \/ SQuery \/ SKeys \/ SEntry \/ SPdf \/ SConfirm \/ SRedownload
    \/ Interrupt

\* runs of the script on one bibliography file
Spec == Init /\ [][Next]_vars

(* ---------------------- download_pdf on its own -------------------------- *)
\* records with every shape of metadata.arxiv_eprints
PdfRecords ==
    {MkRecord(TRUE, <<KA>>, FALSE, <<>>, EntryAx),
     MkRecord(TRUE, <<KA>>, TRUE, <<>>, EntryAx)}
    \cup {MkRecord(TRUE, <<KA>>, TRUE, <<Eprint(v, c)>>, EntryAx) :
            v \in {IdModern, IdLegacy, IdOdd}, c \in {<<>>, <<CatHepPh>>}}

InitPdf ==
    /\ live = NoFile
    /\ bak = NoFile
    /\ pdfs = [k \in Keys |-> "none"]
    /\ now = 0
    /\ pc = "idle"
    /\ args = NoArgs
    /\ bib_texkeys = <<>>
    /\ i = 0
    /\ records = <<>>
    /\ outcome = "none"
    /\ runs = 0
    /\ h = InitHistory
    /\ ext = NoExt
    /\ \E rec \in PdfRecords, dest \in PdfContent, exist_ok \in BOOLEAN,
          net \in NetOutcome :
         call = [record |-> rec, dest |-> dest, exist_ok |-> exist_ok,
                 net |-> net, done |-> FALSE,
                 result |-> NoCall.result]

\* download_pdf(record, dest_file, exist_ok) is called
PdfCall ==
    /\ ~call.done
    /\ call' = [call EXCEPT
                  !.done = TRUE,
                  !.result = download_pdf(call.record, call.dest,
                                          call.exist_ok, call.net)]
    /\ UNCHANGED <<live, bak, pdfs, now, pc, args, bib_texkeys, i, records,
                   outcome, runs, h, ext>>

NextPdf == PdfCall

\* one call of download_pdf for every record, destination and network answer
SpecPdf == InitPdf /\ [][NextPdf]_vars

(* -------------------- bib_get_texkeys on its own ------------------------- *)
\* entries of one text
MaxEntries == 2

\* keys of the entries of a first and of a second text, of a broken entry
KC == <<"C">>
KeysLeft == {KA, KB, KC}
KeysRight == {<<"a", ":", "1">>, <<"x", "-", "2">>, <<"u", ".", "3">>}
KM == <<"y", "_", "9">>

\* entries '@type{key, fields}' with at most one level of braces in the
\* fields: two spellings for each key
EntryForms(k) ==
    IF Len(k) = 1
    THEN {<<"@", "a", "{">> \o k \o <<",", "t", "{", "x", "}", "}">>,
          <<"@", "a", "1", "{", " ">> \o k \o <<" ", ",", "t", "}">>}
    ELSE {<<"@", "a", "{">> \o k \o <<",", "{", "x", "}", "t", "{", "y", "}",
                                      "\n", "}">>,
          <<"@", "a", "{">> \o k \o <<",", "}">>}

BlankLine == <<"\n", "\n">>

\* the texts with one entry for each key of ks, in order, blank lines between
RECURSIVE EntryTexts(_)
EntryTexts(ks) ==
    IF ks = <<>> THEN {<<>>}
    ELSE {IF rest = <<>> THEN e ELSE e \o BlankLine \o rest :
            e \in EntryForms(Head(ks)), rest \in EntryTexts(Tail(ks))}

\* sequences of distinct elements of S of length <= n
RECURSIVE SeqsOver(_, _)
SeqsOver(S, n) ==
    IF n = 0 THEN {<<>>}
    ELSE SeqsOver(S, n - 1) \cup
         {Append(q, k) : q \in {r \in SeqsOver(S, n - 1) : Len(r) = n - 1},
                         k \in S}

\* the texts of at most MaxEntries well-formed entries with distinct keys of
\* S, each with the keys it was built from
WellFormed(S) ==
    UNION {{[keys |-> ks, text |-> t] : t \in EntryTexts(ks)} :
             ks \in {q \in SeqsOver(S, MaxEntries) : Distinct(q)}}

\* broken entries with key KM: the closing brace missing, an extra closing
\* brace after the entry, braces nested two deep; and no broken entry
Fragments ==
    {[kind |-> "none", frag |-> <<>>],
     [kind |-> "missing",
      frag |-> <<"@", "a", "{">> \o KM \o <<",", "t", "{", "x", "}">>],
     [kind |-> "missing", frag |-> <<"@", "a", "{">> \o KM \o <<",", "t">>],
     [kind |-> "stray",
      frag |-> <<"@", "a", "{">> \o KM \o <<",", "t", "{", "x", "}", "}", "}">>],
     [kind |-> "stray", frag |-> <<"@", "a", "{">> \o KM \o <<",", "t", "}", "}">>],
     [kind |-> "deep",
      frag |-> <<"@", "a", "{">> \o KM \o
               <<",", "t", "{", "u", "{", "x", "}", "}", "}">>]}

\* t1 and t2 put together: as they are, or around a broken entry with a
\* blank line on each side where an entry stands
Whole(t1, frag, t2) ==
    IF frag = <<>> THEN t1 \o t2
    ELSE (IF t1 = <<>> THEN <<>> ELSE t1 \o BlankLine) \o frag \o
         (IF t2 = <<>> THEN <<>> ELSE BlankLine \o t2)

InitKeys ==
    /\ live = NoFile
    /\ bak = NoFile
    /\ pdfs = [k \in Keys |-> "none"]
    /\ now = 0
    /\ pc = "idle"
    /\ args = NoArgs
    /\ bib_texkeys = <<>>
    /\ i = 0
    /\ records = <<>>
    /\ outcome = "none"
    /\ runs = 0
    /\ h = InitHistory
    /\ call = NoCall
    /\ \E w1 \in WellFormed(KeysLeft), w2 \in WellFormed(KeysRight),
          f \in Fragments :
         ext = [NoExt EXCEPT !.t1 = w1.text, !.keys1 = w1.keys,
                             !.kind = f.kind, !.frag = f.frag,
                             !.t2 = w2.text, !.keys2 = w2.keys]

\* bib_get_texkeys is called on each text, and twice on the whole
Extract ==
    /\ ~ext.done
    /\ ext' = [ext EXCEPT
                 !.done = TRUE,
                 !.k1 = bib_get_texkeys(ext.t1),
                 !.k2 = bib_get_texkeys(ext.t2),
                 !.kall = bib_get_texkeys(Whole(ext.t1, ext.frag, ext.t2)),
                 !.again = bib_get_texkeys(Whole(ext.t1, ext.frag, ext.t2))]
    /\ UNCHANGED <<live, bak, pdfs, now, pc, args, bib_texkeys, i, records,
                   outcome, runs, h, call>>

NextKeys == Extract

\* one key extraction for every pair of texts and every broken entry
SpecKeys == InitKeys /\ [][NextKeys]_vars

(* ------------------------------ properties ------------------------------ *)
KeysIn(f) == IF f.exists THEN Range(bib_get_texkeys(f.text)) ELSE {}

EntriesOf(rs) == [p \in 1..Len(rs) |-> Record(rs[p]).bibtex]

\* the live file l holds the header of this run and the entry of the record
\* resolved for every captured key, in order
FullyUpdatedIn(l, hh) ==
    /\ l.exists
    /\ Len(hh.resolved) = Len(hh.captured)
    /\ \A p \in 1..Len(hh.resolved) :
         hh.captured[p] \in Range(Record(hh.resolved[p]).texkeys)
    /\ l.text = AppendAll(UpdatedHeader(hh.hdr), EntriesOf(hh.resolved))

FullyUpdated == FullyUpdatedIn(live, h)

\* C1: once a sync run that started without a backup is killed between the
\* backup copy and the backup's removal, and from then on every restore
\* prompt is answered by its default and every key resolves to an entry that
\* reads back under that key, each key the file held before the killed run
\* is still in the live file or in the backup.
C1_NoLossAfterInterrupt ==
    (h.watch.on /\ h.watch.clean) =>
        \A k \in h.watch.keys : k \in KeysIn(live) \cup KeysIn(bak)

\* C2: the file holds A and B, no backup is pending, A resolved to one record
\* and the query for B returns no matching record: after the abort the live
\* file is exactly the file the run started with.
C2_AbortLeavesOriginal ==
    [][(/\ pc = "u_check"
        /\ bib_texkeys = <<KA, KB>>
        /\ i = 2
        /\ records = <<>>
        /\ ~h.recov.had
        /\ pc' = "idle"
        /\ outcome' = "ValueError")
       => (live'.exists /\ live'.text = h.startText)]_vars

\* C3: from the backup copy until the sync ends (by the backup's removal, an
\* abort or a kill), the live file is fully updated or the backup exists and
\* holds the live file's content of the moment the copy was made.
C3_PartialImpliesBackup ==
    (h.phase = "rewrite" \/ (h.phase = "synced" /\ pc = "s_query")) =>
        (FullyUpdated \/ (bak.exists /\ bak.text = h.preText))

\* an abort on the second of two keys: the live file is partial, the backup
\* is what protects the content
C3_Witness ==
    /\ pc = "idle"
    /\ outcome = "ValueError"
    /\ h.phase = "rewrite"
    /\ Len(h.captured) = 2
    /\ Len(h.resolved) = 1
    /\ ~FullyUpdated
    /\ bak.exists

\* C4 as stated: two plain sync runs in succession, both run to the end, the
\* second resolving the same records as the first, leave identical files.
C4_ByteIdentical ==
    (h.pair.ok /\ h.pair.r1 = h.pair.r2) => h.pair.t1 = h.pair.t2

\* t1 and t2 differ at most in the clock reading of the header line
SameButStamp(t1, t2) ==
    /\ Len(t1) = Len(t2)
    /\ \A p \in 1..Len(t1) : p # StampPos => t1[p] = t2[p]

\* C4 amended: two plain sync runs in succession, both run to the end, the
\* second resolving the same records as the first, leave files that are
\* identical except for the time stamp in the header line.
C4_IdenticalButStamp ==
    (h.pair.ok /\ h.pair.r1 = h.pair.r2) =>
        SameButStamp(h.pair.t1, h.pair.t2)

C4_Witness ==
    /\ h.pair.ok
    /\ h.pair.r1 = h.pair.r2
    /\ Len(h.pair.r1) = 2
    /\ h.pair.t1 # h.pair.t2

\* C5: every step that appends an entry (the sync loop at line 303, the
\* selection flow at lines 384-387) leaves the file as it is when the entry's
\* key is among the keys extracted from the file's content at that moment.
C5_DuplicateAppendRefused ==
    [][(/\ \/ pc = "u_append"
           \/ (pc = "s_entry" /\ args.bib /\ ~args.display)
        /\ outcome' \notin {"URLError", "killed"}
        /\ LET e == Record(records[IF pc = "u_append" THEN 1 ELSE i]).bibtex
           IN  bib_get_texkeys(e)[1] \in KeysIn(live))
       => live' = live]_vars

\* C6: when every run so far ran to its end, the keys extracted from the
\* bibliography file are pairwise distinct.
C6_KeysUnique ==
    (pc = "idle" /\ h.allDone /\ live.exists) =>
        Distinct(bib_get_texkeys(live.text))

\* what C7 says of the state right after the restore step
RecoveryAsClaimed ==
    /\ h.recov.restored <=> h.recov.nb > h.recov.nl
    /\ ~bak.exists
    /\ live.exists
    /\ Len(bib_get_texkeys(live.text)) = Max(h.recov.nb, h.recov.nl)
    /\ Len(bib_get_texkeys(live.text)) >= h.recov.nl

\* C7 as stated: when a backup exists at the start of a sync run, the restore
\* step restores it exactly when it has more keys than the live file and
\* otherwise deletes it; the live file then has the larger key count.
C7_RecoveryDecision ==
    (pc = "u_copy" /\ h.recov.had) => RecoveryAsClaimed

\* C7 amended: the same, when the user accepts the prompt's default answer.
C7_RecoveryDecisionByDefault ==
    (pc = "u_copy" /\ h.recov.had /\ h.recov.answer = "enter") =>
        RecoveryAsClaimed

\* the restore step after a killed rewrite, the backup holding more keys
C7_Witness ==
    /\ pc = "u_copy"
    /\ h.recov.had
    /\ h.recov.answer = "enter"
    /\ h.watch.on
    /\ h.recov.nb > h.recov.nl
    /\ h.recov.restored

\* C8: from the moment a sync has completed no backup file exists, and no
\* step after the restore step removes the backup unless it leaves the live
\* file fully updated.
C8_NoBackupAfterCompletion ==
    [][/\ h'.phase = "synced" => ~bak'.exists
       /\ (pc # "u_restore" /\ bak.exists /\ ~bak'.exists)
            => FullyUpdatedIn(live', h')]_vars

\* a completed sync of a run that found a backup and restored it
C8_Witness ==
    /\ h.phase = "synced"
    /\ h.recov.had
    /\ h.recov.restored
    /\ Len(h.captured) >= 1
    /\ ~bak.exists

CarriesIdentifier(rec) == rec.hasEprints /\ rec.arxiv_eprints # <<>>

\* the first identifier is of the digits.digits form or has a category
Resolvable(rec) ==
    \/ FullMatchDigitsDotDigits(rec.arxiv_eprints[1].value)
    \/ rec.arxiv_eprints[1].categories # <<>>

\* C9: with the destination present and exist_ok false, download_pdf raises
\* FileExistsError with no identifier resolved, no transfer and the
\* destination unchanged; with exist_ok true and a record carrying an
\* identifier, the transfer is made whenever the identifier can be put in the
\* URL, and a transfer that succeeds leaves the new content and no error.
C9_OverwriteGated ==
    call.done =>
        LET r == call.result
            rec == call.record
        IN  /\ (call.dest # "none" /\ ~call.exist_ok) =>
                  /\ r.raised = "FileExistsError"
                  /\ ~r.transfer
                  /\ r.arxiv_id = <<>>
                  /\ r.dest = call.dest
            /\ (call.dest # "none" /\ call.exist_ok /\ CarriesIdentifier(rec)) =>
                  /\ Resolvable(rec) => r.transfer
                  /\ (r.transfer /\ call.net = "ok") =>
                        (r.raised = "none" /\ r.dest = "new")

C9_Witness ==
    /\ call.done
    /\ call.dest = "old"
    /\ call.exist_ok
    /\ CarriesIdentifier(call.record)
    /\ call.net = "ok"
    /\ call.result.raised = "none"
    /\ call.result.dest = "new"

\* C10: a call that passes the overwrite guard for a record with no
\* arxiv_eprints, or with an empty arxiv_eprints list, raises the ValueError
\* 'has no arXiv entry', makes no transfer and leaves the destination as it was.
C10_NoIdentifierIsValueError ==
    (/\ call.done
     /\ (call.dest = "none" \/ call.exist_ok)
     /\ ~CarriesIdentifier(call.record))
    => /\ call.result.raised = "ValueError"
       /\ ~call.result.transfer
       /\ call.result.dest = call.dest

\* the whole value is four digits, a dot, then four or five digits
FourDotFourOrFive(v) ==
    /\ Len(v) \in {9, 10}
    /\ \A p \in 1..Len(v) : IF p = 5 THEN v[p] = "." ELSE v[p] \in Digit

\* C11: the identifier download_pdf puts in the URL is the value unchanged
\* exactly when the whole value is four digits, a dot and four or five
\* digits, and the first category, '/' and the value for every other value.
C11_NormalizationRule ==
    (call.done /\ call.result.transfer) =>
        LET ep == call.record.arxiv_eprints[1]
        IN  IF FourDotFourOrFive(ep.value)
            THEN call.result.arxiv_id = ep.value
            ELSE /\ ep.categories # <<>>
                 /\ call.result.arxiv_id = ep.categories[1] \o <<"/">> \o ep.value

\* C12: for texts of well-formed entries with disjoint key sets, extraction
\* returns one key per entry in order of appearance, the same sequence when
\* repeated, and from T1 + T2 the keys of T1 followed by the keys of T2.
C12_ExtractionCompositional ==
    (ext.done /\ ext.kind = "none") =>
        /\ ext.k1 = ext.keys1
        /\ ext.k2 = ext.keys2
        /\ ext.kall = ext.k1 \o ext.k2
        /\ ext.again = ext.kall

\* two entries in each text
C12_Witness ==
    /\ ext.done
    /\ ext.kind = "none"
    /\ Len(ext.keys1) = 2
    /\ Len(ext.keys2) = 2
    /\ Len(ext.kall) = 4

\* C13 as stated: with one broken entry among well-formed ones, extraction
\* returns the keys of the well-formed entries before and after it, in
\* order, and not the key of the broken entry.
C13_MalformedSkipped ==
    (ext.done /\ ext.kind # "none") =>
        /\ ext.kall = ext.keys1 \o ext.keys2
        /\ KM \notin Range(ext.kall)

\* C13 amended: the same, except that an entry followed by an extra closing
\* brace is read as an entry, its key standing between the keys of the
\* entries before and after it.
C13_MalformedSkippedOrRead ==
    (ext.done /\ ext.kind # "none") =>
        ext.kall = ext.keys1
                   \o (IF ext.kind = "stray" THEN <<KM>> ELSE <<>>)
                   \o ext.keys2

\* an unterminated entry between well-formed ones
C13_Witness ==
    /\ ext.done
    /\ ext.kind = "missing"
    /\ Len(ext.keys1) >= 1
    /\ Len(ext.keys2) >= 1
    /\ ext.kall = ext.keys1 \o ext.keys2

\* C14: in a sync run that found a backup, the keys the loop will go through
\* are the keys of the live file as the restore step left it.
C14_KeysOfRecoveredFile ==
    (pc \in {"u_copy", "u_copy2", "u_trunc"} /\ h.recov.had) =>
        bib_texkeys = bib_get_texkeys(live.text)

\* the entries of the records rs as the file holds them, one after the other
RECURSIVE EntriesText(_)
EntriesText(rs) ==
    IF rs = <<>> THEN <<>>
    ELSE <<"\n">> \o Record(Head(rs)).bibtex \o EntriesText(Tail(rs))

\* C15: when the sync has just completed, the live file is the header line
\* written by this run followed by the entries of the records resolved for
\* the captured keys, one for each captured key in the captured order; with
\* no captured key it is the header line alone.
C15_CompletedOutput ==
    (h.phase = "synced" /\ pc = "s_query") =>
        /\ live.exists
        /\ h.hdr = now
        /\ Len(h.resolved) = Len(h.captured)
        /\ \A p \in 1..Len(h.captured) :
             h.captured[p] \in Range(Record(h.resolved[p]).texkeys)
        /\ live.text = UpdatedHeader(h.hdr) \o EntriesText(h.resolved)
        /\ (h.captured = <<>> => live.text = UpdatedHeader(h.hdr))

\* a completed sync of the keys B, A with a record for each
C15_Witness ==
    /\ h.phase = "synced"
    /\ pc = "s_query"
    /\ h.captured = <<KB, KA>>
    /\ h.resolved = <<2, 1>>
    /\ live.text = UpdatedHeader(h.hdr) \o <<"\n">> \o EntryBx \o <<"\n">> \o EntryAx

\* C16: a step of the sync that fetches an artifact, whatever the fetch
\* raises, leaves the live file and the backup as they are and does not end
\* the run: the loop goes on with the next key or, after the last key, with
\* the backup's removal; the fetch never fails on an existing artifact; and
\* a sync with artifact refresh that completes leaves no backup and the file
\* a sync without artifact refresh leaves for the same records.
C16_FetchFailuresHarmless ==
    [][/\ (pc = "u_pdf" /\ outcome' # "killed") =>
            /\ live' = live
            /\ bak' = bak
            /\ outcome' = "running"
            /\ h'.warn # "FileExistsError"
            /\ h'.resolved = h.resolved
            /\ IF i < Len(bib_texkeys)
               THEN pc' = "u_query" /\ i' = i + 1
               ELSE pc' = "u_remove"
       /\ (pc = "u_remove" /\ args.pdf /\ pc' = "s_query") =>
            /\ ~bak'.exists
            /\ live'.text = UpdatedHeader(h.hdr) \o EntriesText(h.resolved)
            /\ Len(h.resolved) = Len(bib_texkeys)]_vars

\* a sync with artifact refresh completed although a record had no
\* identifier and a transfer failed, and replaced an artifact that existed
C16_Witness ==
    /\ h.phase = "synced"
    /\ pc = "s_query"
    /\ args.pdf
    /\ h.resolved = <<1, 2>>
    /\ h.warn = "ValueError"
    /\ pdfs[KA] = "new"
    /\ ~bak.exists

\* C17: when the records matching the i-th captured key are not exactly
\* one, the run ends at once with the ValueError: nothing is written for
\* that key, no later key is reached, the live file holds the header and the
\* entries of the keys before it, and the backup is still there.
C17_AbortAtFailingKey ==
    [][(pc = "u_check" /\ Len(records) # 1 /\ outcome' # "killed") =>
          /\ pc' = "idle"
          /\ outcome' = "ValueError"
          /\ live' = live
          /\ pdfs' = pdfs
          /\ bak' = bak
          /\ bak.exists
          /\ Len(h.resolved) = i - 1
          /\ \A p \in 1..(i - 1) :
               bib_texkeys[p] \in Range(Record(h.resolved[p]).texkeys)
          /\ live.text = UpdatedHeader(h.hdr) \o EntriesText(h.resolved)]_vars

\* the abort on the second of the keys A, B
C17_Witness ==
    /\ pc = "idle"
    /\ outcome = "ValueError"
    /\ h.upd
    /\ h.captured = <<KA, KB>>
    /\ h.resolved = <<1>>
    /\ live.text = UpdatedHeader(h.hdr) \o <<"\n">> \o EntryAx
    /\ bak.exists
    /\ bak.text = h.preText

\* C18: a sync run started while the live file is missing ends with the
\* I/O error at its first read; no step of it creates, changes or removes
\* the live file, the backup or an artifact.
C18_MissingFileNoEffects ==
    [][(~live.exists /\ (pc = "u_keys" \/ (pc = "idle" /\ pc' = "u_keys"))) =>
          /\ live' = live
          /\ bak' = bak
          /\ pdfs' = pdfs
          /\ pc = "u_keys" =>
               (pc' = "idle" /\ outcome' \in {"IOError", "killed"})]_vars

\* the sync failed on the missing file, the backup found there is in place
C18_Witness ==
    /\ pc = "idle"
    /\ outcome = "IOError"
    /\ h.upd
    /\ ~live.exists
    /\ bak = File(bib_append_entry(CreatedHeader, OldEntry(KA)))

\* s is a prefix of t
IsPrefix(s, t) == Len(s) <= Len(t) /\ SubSeq(t, 1, Len(s)) = s

\* C19: in a run without --update, every step leaves the bibliography
\* file's content as a prefix of its new content and the backup as it is;
\* an artifact that exists is changed only by the re-download, which is
\* reached only from the user's confirmation, which is asked only after the
\* fetch without overwrite has failed on the existing artifact; and at the
\* end of the run the file starts with the content the run found.
C19_SelectionOnlyAppends ==
    [][(~h.upd /\ pc \notin {"idle"}) =>
          /\ live'.exists = live.exists
          /\ IsPrefix(live.text, live'.text)
          /\ bak' = bak
          /\ \A k \in Keys :
               (pdfs[k] # "none" /\ pdfs'[k] # pdfs[k]) => pc = "s_redl"
          /\ pc' = "s_redl" => pc = "s_confirm"
          /\ pc' = "s_confirm" =>
               /\ pc = "s_pdf"
               /\ pdfs' = pdfs
               /\ pdfs[Record(records[i]).texkeys[1]] # "none"
          /\ pc' = "idle" => IsPrefix(h.startText, live'.text)]_vars

\* a run without --update appended the entry of A and, on confirmation,
\* replaced the artifact of A that was there
C19_Witness ==
    /\ pc = "idle"
    /\ outcome = "done"
    /\ runs = 1
    /\ ~h.upd
    /\ live.text = bib_append_entry(h.startText, EntryAx)
    /\ pdfs[KA] = "new"
====
